---- MODULE Spec2Model ----
(***************************************************************************)
(* Model of src/pagerank.py: transition_model, sample_pagerank and         *)
(* iterate_pagerank over a corpus (page -> set of linked pages).           *)
(*                                                                         *)
(* Real numbers are exact rationals <<num, den>> in lowest terms.  The     *)
(* program computes in IEEE doubles; the model keeps the exact value and   *)
(* accounts for the two places where the double arithmetic is visible:     *)
(*   - round(x, k) of a value that lies exactly halfway between two        *)
(*     k-digit decimals is decided by the rounding error of the double     *)
(*     computation of x, so the model allows both neighbours;              *)
(*   - math.floor(x*10000)/10000 of a 4-digit decimal x = k/10000 yields   *)
(*     (k-1)/10000 whenever the double product x*10000 falls below k;      *)
(*     FloorDrops lists exactly those k.                                   *)
(***************************************************************************)
EXTENDS Integers, FiniteSets, Sequences

\* ---------------------------------------------------------------- bounds
MaxPages == 3
MaxSamples == 3

\* ------------------------------------------------------ program constants
RankUnit == 10000
Tolerance == 10
DAMPING == <<17, 20>>
\* damping factors the functions are called with: 0.003, 0.85, 0.99
Dampings == {<<3, 1000>>, DAMPING, <<99, 100>>}

\* -------------------------------------------------- exact real arithmetic
\* The arithmetic is written as functions: a function application evaluates
\* its arguments once.
Rat == Int \X Nat

GCD[a \in Nat, b \in Nat] == IF b = 0 THEN a ELSE GCD[b, a % b]

Abs(x) == IF x < 0 THEN -x ELSE x

Frac[num \in Int, den \in Nat] ==
    LET g == GCD[Abs(num), den] IN <<num \div g, den \div g>>

RAdd[a \in Rat, b \in Rat] ==
    LET l == (a[2] \div GCD[a[2], b[2]]) * b[2]
    IN  Frac[a[1] * (l \div a[2]) + b[1] * (l \div b[2]), l]

RSub[a \in Rat, b \in Rat] == RAdd[a, <<-b[1], b[2]>>]

RMul[a \in Rat, b \in Rat] ==
    LET g1 == GCD[Abs(a[1]), b[2]]
        g2 == GCD[Abs(b[1]), a[2]]
    IN  Frac[(a[1] \div g1) * (b[1] \div g2), (a[2] \div g2) * (b[2] \div g1)]

RDivInt[a \in Rat, k \in Nat] == RMul[a, <<1, k>>]

RAbs[a \in Rat] == <<Abs(a[1]), a[2]>>

RLeq[a \in Rat, b \in Rat] == RSub[a, b][1] <= 0

Zero == <<0, 1>>
One == <<1, 1>>

\* the sum of f over S
RSum(f, S) ==
    LET sum[T \in SUBSET S] ==
            IF T = {} THEN Zero
            ELSE LET x == CHOOSE y \in T : TRUE IN RAdd[f[x], sum[T \ {x}]]
    IN  sum[S]

\* one more decimal digit of a long division by den
Shift[qr \in Nat \X Nat, den \in Nat] ==
    <<qr[1] * 10 + (qr[2] * 10) \div den, (qr[2] * 10) % den>>

\* <<q, r>> with a * 10^digits = q * a[2] + r (a >= 0)
Scaled[a \in Rat, digits \in Nat] ==
    IF digits = 0 THEN <<a[1] \div a[2], a[1] % a[2]>>
    ELSE Shift[Scaled[a, digits - 1], a[2]]

\* the integer nearest to q + r/den; both neighbours when it is halfway
Nearest[qr \in Nat \X Nat, den \in Nat] ==
    IF 2 * qr[2] < den THEN {qr[1]}
    ELSE IF 2 * qr[2] > den THEN {qr[1] + 1}
    ELSE {qr[1], qr[1] + 1}

\* round(a, digits): the possible results, in units of 10^-digits
round[a \in Rat, digits \in Nat] == Nearest[Scaled[a, digits], a[2]]

\* the k in 0..10000 for which the double (k/10000)*10000 is below k
FloorDrops ==
    {
     3, 6, 12, 24, 29, 48, 58, 93, 96, 113, 116, 163, 169, 186, 192, 209,
     215, 226, 232, 249, 255, 321, 326, 338, 355, 372, 384, 389, 401, 418, 430, 435,
     447, 452, 464, 481, 493, 498, 510, 642, 647, 652, 676, 681, 705, 710, 715, 739,
     744, 768, 773, 778, 797, 802, 807, 831, 836, 841, 860, 865, 870, 894, 899, 904,
     923, 928, 933, 957, 962, 967, 986, 991, 996, 1020, 1284, 1289, 1294, 1299, 1304, 1309,
     1347, 1352, 1357, 1362, 1367, 1410, 1415, 1420, 1425, 1430, 1473, 1478, 1483, 1488, 1493, 1536,
     1541, 1546, 1551, 1556, 1594, 1599, 1604, 1609, 1614, 1619, 1657, 1662, 1667, 1672, 1677, 1682,
     1720, 1725, 1730, 1735, 1740, 1745, 1783, 1788, 1793, 1798, 1803, 1808, 1846, 1851, 1856, 1861,
     1866, 1871, 1909, 1914, 1919, 1924, 1929, 1934, 1972, 1977, 1982, 1987, 1992, 2035, 2040, 2045,
     2563, 2568, 2573, 2578, 2583, 2588, 2593, 2598, 2603, 2608, 2613, 2618, 2689, 2694, 2699, 2704,
     2709, 2714, 2719, 2724, 2729, 2734, 2739, 2815, 2820, 2825, 2830, 2835, 2840, 2845, 2850, 2855,
     2860, 2865, 2941, 2946, 2951, 2956, 2961, 2966, 2971, 2976, 2981, 2986, 2991, 3067, 3072, 3077,
     3082, 3087, 3092, 3097, 3102, 3107, 3112, 3117, 3188, 3193, 3198, 3203, 3208, 3213, 3218, 3223,
     3228, 3233, 3238, 3243, 3314, 3319, 3324, 3329, 3334, 3339, 3344, 3349, 3354, 3359, 3364, 3440,
     3445, 3450, 3455, 3460, 3465, 3470, 3475, 3480, 3485, 3490, 3566, 3571, 3576, 3581, 3586, 3591,
     3596, 3601, 3606, 3611, 3616, 3692, 3697, 3702, 3707, 3712, 3717, 3722, 3727, 3732, 3737, 3742,
     3813, 3818, 3823, 3828, 3833, 3838, 3843, 3848, 3853, 3858, 3863, 3868, 3939, 3944, 3949, 3954,
     3959, 3964, 3969, 3974, 3979, 3984, 3989, 4065, 4070, 4075, 4080, 4085, 4090, 4095, 5005, 5015,
     5025, 5035, 5045, 5055, 5065, 5075, 5085, 5095, 5105, 5126, 5136, 5146, 5156, 5166, 5176, 5186,
     5196, 5206, 5216, 5226, 5236, 5257, 5267, 5277, 5287, 5297, 5307, 5317, 5327, 5337, 5347, 5357,
     5378, 5388, 5398, 5408, 5418, 5428, 5438, 5448, 5458, 5468, 5478, 5509, 5519, 5529, 5539, 5549,
     5559, 5569, 5579, 5589, 5599, 5609, 5630, 5640, 5650, 5660, 5670, 5680, 5690, 5700, 5710, 5720,
     5730, 5751, 5761, 5771, 5781, 5791, 5801, 5811, 5821, 5831, 5841, 5851, 5861, 5882, 5892, 5902,
     5912, 5922, 5932, 5942, 5952, 5962, 5972, 5982, 6003, 6013, 6023, 6033, 6043, 6053, 6063, 6073,
     6083, 6093, 6103, 6134, 6144, 6154, 6164, 6174, 6184, 6194, 6204, 6214, 6224, 6234, 6255, 6265,
     6275, 6285, 6295, 6305, 6315, 6325, 6335, 6345, 6355, 6376, 6386, 6396, 6406, 6416, 6426, 6436,
     6446, 6456, 6466, 6476, 6486, 6507, 6517, 6527, 6537, 6547, 6557, 6567, 6577, 6587, 6597, 6607,
     6628, 6638, 6648, 6658, 6668, 6678, 6688, 6698, 6708, 6718, 6728, 6759, 6769, 6779, 6789, 6799,
     6809, 6819, 6829, 6839, 6849, 6859, 6880, 6890, 6900, 6910, 6920, 6930, 6940, 6950, 6960, 6970,
     6980, 7001, 7011, 7021, 7031, 7041, 7051, 7061, 7071, 7081, 7091, 7101, 7111, 7132, 7142, 7152,
     7162, 7172, 7182, 7192, 7202, 7212, 7222, 7232, 7253, 7263, 7273, 7283, 7293, 7303, 7313, 7323,
     7333, 7343, 7353, 7384, 7394, 7404, 7414, 7424, 7434, 7444, 7454, 7464, 7474, 7484, 7505, 7515,
     7525, 7535, 7545, 7555, 7565, 7575, 7585, 7595, 7605, 7626, 7636, 7646, 7656, 7666, 7676, 7686,
     7696, 7706, 7716, 7726, 7736, 7757, 7767, 7777, 7787, 7797, 7807, 7817, 7827, 7837, 7847, 7857,
     7878, 7888, 7898, 7908, 7918, 7928, 7938, 7948, 7958, 7968, 7978, 8009, 8019, 8029, 8039, 8049,
     8059, 8069, 8079, 8089, 8099, 8109, 8130, 8140, 8150, 8160, 8170, 8180, 8190}

\* math.floor(x * 10000) / 10000 for the double x = k/10000
floor4(k) == Frac[IF k \in FloorDrops THEN k - 1 ELSE k, RankUnit]

\* ----------------------------------------------------------------- state
VARIABLES
    corpus,            \* page -> set of pages it links to
    damping_factor,    \* <<num, den>>
    n,                 \* sample count of sample_pagerank
    call,              \* the function this run executes
    pc,                \* position in that function
    err,               \* the exception that ended it, or "none"
    page,              \* current page (sample_pagerank), argument (transition_model)
    prob_dist,         \* page -> probability
    sample,            \* loop counter of sample_pagerank
    pagerank,          \* page -> rank
    updated_pagerank,  \* page -> rank written in the current pass
    visited,           \* pages the current pass has processed
    repeat             \* the loop flag of iterate_pagerank

vars == <<corpus, damping_factor, n, call, pc, err, page, prob_dist, sample,
          pagerank, updated_pagerank, visited, repeat>>

Pages == DOMAIN corpus
N == Cardinality(Pages)
NoPage == 0

\* Page names are opaque: a corpus is enumerated once per renaming of its
\* pages (the one with the least edge code), since no function below
\* depends on a page's name.
Perms(k) == {f \in [1..k -> 1..k] : \A p, q \in 1..k : f[p] = f[q] => p = q}

RECURSIVE Pow2(_)
Pow2(k) == IF k = 0 THEN 1 ELSE 2 * Pow2(k - 1)

RECURSIVE SumOver(_, _)
SumOver(f, S) ==
    IF S = {} THEN 0
    ELSE LET x == CHOOSE y \in S : TRUE IN f[x] + SumOver(f, S \ {x})

EdgeCode(c, f, k) ==
    LET E == {e \in (1..k) \X (1..k) : e[2] \in c[e[1]]}
        w == [e \in E |-> Pow2((f[e[1]] - 1) * k + (f[e[2]] - 1))]
    IN  SumOver(w, E)

Canonical(c, k) ==
    LET id == [p \in 1..k |-> p]
    IN  \A f \in Perms(k) : EdgeCode(c, id, k) <= EdgeCode(c, f, k)

\* what crawl returns (lines 40-47): no page links to itself, every target
\* is a key
Corpora ==
    UNION {{c \in [1..k -> SUBSET (1..k)] :
              /\ \A p \in 1..k : p \notin c[p]
              /\ Canonical(c, k)} :
           k \in 0..MaxPages}

Calls == {"transition_model", "sample_pagerank", "iterate_pagerank"}

Init ==
    /\ corpus \in Corpora
    /\ damping_factor \in Dampings
    /\ call \in Calls
    /\ n \in IF call = "sample_pagerank" THEN 1..MaxSamples ELSE {0}
    /\ pc = "start"
    /\ err = "none"
    /\ page = NoPage
    /\ prob_dist = [p \in Pages |-> Zero]
    /\ sample = 0
    /\ pagerank = [p \in Pages |-> Zero]
    /\ updated_pagerank = [p \in Pages |-> Zero]
    /\ visited = {}
    /\ repeat = TRUE

\* ------------------------------------------------------ transition_model
\* linked_prob with the fault of dividing by the corpus size
linked_prob_over_corpus(c, pg, d) == RDivInt[d, Cardinality(DOMAIN c)]

\* line 67
linked_prob(c, pg, d) == RDivInt[d, Cardinality(c[pg])]

\* line 72
teleport_prob(c, d) == RDivInt[RSub[One, d], Cardinality(DOMAIN c)]

\* lines 61-74; len(corpus[page]) = 0 raises ZeroDivisionError at line 67
transition_model(c, pg, d) ==
    IF Cardinality(c[pg]) = 0
    THEN [err |-> "ZeroDivisionError", dist |-> [p \in DOMAIN c |-> Zero]]
    ELSE LET init == [p \in DOMAIN c |-> Zero]
             linked == [p \in DOMAIN c |->
                          IF p \in c[pg] THEN linked_prob(c, pg, d) ELSE init[p]]
         IN  [err |-> "none",
              dist |-> [p \in DOMAIN c |-> RAdd[linked[p], teleport_prob(c, d)]]]

CallTransitionModel ==
    /\ call = "transition_model"
    /\ pc = "start"
    /\ \E pg \in Pages :
         LET tm == transition_model(corpus, pg, damping_factor) IN
         /\ page' = pg
         /\ prob_dist' = tm.dist
         /\ err' = tm.err
         /\ pc' = IF tm.err = "none" THEN "done" ELSE "error"
    /\ UNCHANGED <<corpus, damping_factor, n, call, sample, pagerank,
                   updated_pagerank, visited, repeat>>

\* ------------------------------------------------------- sample_pagerank
\* a weight handed to random.choices (line 97): round[val*100, 6]
weights(val) == round[RMul[val, <<100, 1>>], 6]

\* random.choices never returns an element whose weight is 0
Drawable(dist) == {p \in DOMAIN dist : \E w \in weights(dist[p]) : w > 0}

\* lines 86-95: random.randint(0, -1) raises ValueError on an empty corpus
SampleStart ==
    /\ call = "sample_pagerank"
    /\ pc = "start"
    /\ IF N = 0
       THEN /\ pc' = "error"
            /\ err' = "ValueError"
            /\ UNCHANGED <<page, prob_dist, pagerank, sample>>
       ELSE \E pg \in Pages :
              LET tm == transition_model(corpus, pg, damping_factor) IN
              /\ page' = pg
              /\ prob_dist' = tm.dist
              /\ err' = tm.err
              /\ IF tm.err = "none"
                 THEN /\ pagerank' = [pagerank EXCEPT ![pg] = RAdd[@, One]]
                      /\ pc' = "loop"
                 ELSE /\ pc' = "error"
                      /\ UNCHANGED pagerank
              /\ UNCHANGED sample
    /\ UNCHANGED <<corpus, damping_factor, n, call, updated_pagerank, visited,
                   repeat>>

\* lines 96-99: one iteration of `for sample in range(n)`
SampleStep ==
    /\ call = "sample_pagerank"
    /\ pc = "loop"
    /\ sample < n
    /\ \E pg \in Drawable(prob_dist) :
         LET tm == transition_model(corpus, pg, damping_factor) IN
         /\ page' = pg
         /\ prob_dist' = tm.dist
         /\ err' = tm.err
         /\ IF tm.err = "none"
            THEN /\ pagerank' = [pagerank EXCEPT ![pg] = RAdd[@, One]]
                 /\ sample' = sample + 1
                 /\ pc' = "loop"
            ELSE /\ pc' = "error"
                 /\ UNCHANGED <<pagerank, sample>>
    /\ UNCHANGED <<corpus, damping_factor, n, call, updated_pagerank, visited,
                   repeat>>

\* lines 101-104
SampleFinish ==
    /\ call = "sample_pagerank"
    /\ pc = "loop"
    /\ sample = n
    /\ pagerank' = [p \in Pages |-> RDivInt[pagerank[p], n]]
    /\ pc' = "done"
    /\ UNCHANGED <<corpus, damping_factor, n, call, err, page, prob_dist,
                   sample, updated_pagerank, visited, repeat>>

\* ------------------------------------------------------ iterate_pagerank
\* initial_rank with the fault of floor division, 1 // N
initial_rank_floordiv(k) == Frac[1 \div k, 1]

\* line 117
initial_rank(k) == Frac[1, k]

\* rank_read with the fault of one buffer updated in place
rank_read_in_place(pr, upd, vis, q) == IF q \in vis THEN upd[q] ELSE pr[q]

\* the rank of linking_page that line 131 reads
rank_read(pr, upd, vis, q) == pr[q]

\* lines 127-129
num_links(c, q) ==
    IF Cardinality(c[q]) = 0 THEN Cardinality(DOMAIN c) ELSE Cardinality(c[q])

\* lines 125-131: only pages q with `page in corpus[q]` contribute
linking_pages(c, p) == {q \in DOMAIN c : p \in c[q]}

total_contribution(c, pr, upd, vis, p) ==
    LET share == [q \in DOMAIN c |->
                    RDivInt[rank_read(pr, upd, vis, q), num_links(c, q)]]
    IN  RSum(share, linking_pages(c, p))

\* line 133
new_rank(c, pr, upd, vis, p, d) ==
    RAdd[RDivInt[RSub[One, d], Cardinality(DOMAIN c)],
         RMul[d, total_contribution(c, pr, upd, vis, p)]]

\* line 137: round[abs(new_rank - pagerank[page]), 4] > 0.001
exceeds_tolerance(nr, old) ==
    {t > Tolerance : t \in round[RAbs[RSub[nr, old]], 4]}

\* a 4-digit decimal as its count of units of 1/10000
Units(r) == r[1] * (RankUnit \div r[2])

\* lines 116-123: 1 / N raises ZeroDivisionError on an empty corpus
IterStart ==
    /\ call = "iterate_pagerank"
    /\ pc = "start"
    /\ IF N = 0
       THEN /\ pc' = "error"
            /\ err' = "ZeroDivisionError"
            /\ UNCHANGED <<pagerank, updated_pagerank, repeat>>
       ELSE /\ pagerank' = [p \in Pages |-> initial_rank(N)]
            /\ updated_pagerank' = [p \in Pages |-> Zero]
            /\ repeat' = FALSE
            /\ pc' = "pass"
            /\ UNCHANGED err
    /\ UNCHANGED <<corpus, damping_factor, n, call, page, prob_dist, sample,
                   visited>>

\* lines 133-138 for one page: the possible <<new_rank, new_rank differs
\* from pagerank[page] by more than the tolerance>>
page_results(c, pr, upd, vis, p, d) ==
    UNION {{<<Frac[k, RankUnit], over>> :
              over \in exceeds_tolerance(Frac[k, RankUnit], pr[p])} :
           k \in round[new_rank(c, pr, upd, vis, p, d), 4]}

\* lines 124-140: the body of `for page in pagerank.keys()` for one page.
\* The pages are taken in any order.
VisitPage(p) ==
    /\ call = "iterate_pagerank"
    /\ pc = "pass"
    /\ p \in Pages \ visited
    /\ \E res \in page_results(corpus, pagerank, updated_pagerank, visited, p,
                               damping_factor) :
         /\ repeat' = (repeat \/ res[2])
         /\ updated_pagerank' = [updated_pagerank EXCEPT ![p] = res[1]]
    /\ visited' = visited \cup {p}
    /\ UNCHANGED <<corpus, damping_factor, n, call, pc, err, page, prob_dist,
                   sample, pagerank>>

\* lines 142-146 and the loop test of line 122
EndPass ==
    /\ call = "iterate_pagerank"
    /\ pc = "pass"
    /\ visited = Pages
    /\ updated_pagerank' = [p \in Pages |-> floor4(Units(updated_pagerank[p]))]
    /\ pagerank' = updated_pagerank'
    /\ visited' = {}
    /\ repeat' = FALSE
    /\ pc' = IF repeat THEN "pass" ELSE "done"
    /\ UNCHANGED <<corpus, damping_factor, n, call, err, page, prob_dist,
                   sample>>

Next ==
    \/ CallTransitionModel
    \/ SampleStart
    \/ SampleStep
    \/ SampleFinish
    \/ IterStart
    \/ \E p \in Pages : VisitPage(p)
    \/ EndPass

Spec == Init /\ [][Next]_vars

\* the interpreter keeps executing the running function
FairSpec == Spec /\ WF_vars(Next)

\* ================================================================ claims
Iterating == call = "iterate_pagerank"
Sampling == call = "sample_pagerank"
Dangling == {q \in Pages : corpus[q] = {}}

\* the recurrence with the dangling-node correction: a page without links
\* counts as linking to every page
corrected_rank(p) ==
    LET share == [q \in Pages |-> RDivInt[pagerank[q], num_links(corpus, q)]]
    IN  RAdd[RDivInt[RSub[One, damping_factor], N],
             RMul[damping_factor,
                  RSum(share, linking_pages(corpus, p) \cup Dangling)]]

\* C1: in a corpus with a dangling page q, the rank a pass writes for every
\* page p is the recurrence whose sum includes rank(q)/N.
C1_DanglingRedistributed ==
    (Iterating /\ pc = "pass" /\ Dangling # {}) =>
        \A p \in visited :
            Units(updated_pagerank[p]) \in round[corrected_rank(p), 4]

\* C2: the values sample_pagerank returns sum to 1 (the tallies total n).
C2_SampleSumsToOne ==
    (Sampling /\ pc = "done") => RSum(pagerank, Pages) = One

\* C3: transition_model on a page without links returns mass 1/N for every
\* page and does not fail.
C3_DanglingUniform ==
    (call = "transition_model" /\ pc # "start" /\ corpus[page] = {}) =>
        /\ pc = "done"
        /\ \A p \in Pages : prob_dist[p] = Frac[1, N]

\* C4: at the end of every pass of iterate_pagerank, and in its result, the
\* ranks sum to exactly 1.
C4_PassSumsToOne ==
    (Iterating /\ pc \in {"pass", "done"} /\ visited = {}) =>
        RSum(pagerank, Pages) = One

\* C5: the loop of iterate_pagerank eventually exits.
C5_Terminates == Iterating => <>(pc \in {"done", "error"})

\* C6: for a page with links, transition_model gives each linked page
\* d/|links| + (1-d)/N and every other page (1-d)/N.
C6_LinkedMass ==
    (page # NoPage /\ err = "none") =>
        \A q \in Pages :
            LET L == Cardinality(corpus[page])
                dn == damping_factor[1]
                dd == damping_factor[2]
                m == prob_dist[q]
            IN  /\ L > 0
                /\ IF q \in corpus[page]
                   THEN m[1] * (dd * L * N) = (dn * N + (dd - dn) * L) * m[2]
                   ELSE m[1] * (dd * N) = (dd - dn) * m[2]

C6_Witness ==
    /\ call = "transition_model"
    /\ pc = "done"
    /\ N = 3
    /\ Cardinality(corpus[page]) = 1

\* C7: on an empty corpus both estimators fail with EmptyCorpusError.
C7_EmptyCorpusError ==
    (N = 0 /\ call \in {"sample_pagerank", "iterate_pagerank"} /\ pc # "start") =>
        (pc = "error" /\ err = "EmptyCorpusError")

TwoCycle == Pages = {1, 2} /\ corpus[1] = {2} /\ corpus[2] = {1}

\* C8: on the two-page cycle iterate_pagerank starts from 1/2 for each page,
\* asks for no further pass and returns 1/2 for each page.
C8_TwoCycleHalf ==
    (Iterating /\ TwoCycle /\ pc # "start") =>
        /\ \A p \in Pages : pagerank[p] = <<1, 2>>
        /\ ~repeat

C8_Witness == Iterating /\ TwoCycle /\ pc = "done"

\* C9: every rank written in a pass is the recurrence evaluated on the ranks
\* of the previous pass alone, whatever pages the pass has already visited.
C9_ReadsPreviousPass ==
    (Iterating /\ pc = "pass") =>
        \A p \in visited :
            Units(updated_pagerank[p]) \in
                round[new_rank(corpus, pagerank, pagerank, {}, p,
                               damping_factor), 4]

C9_Witness ==
    /\ Iterating
    /\ pc = "pass"
    /\ visited = Pages
    /\ N = 3
    /\ \E p, q \in Pages :
         /\ p \in corpus[q]
         /\ updated_pagerank[q] # pagerank[q]

\* C10: the loop exits after a pass only if every page's new rank is within
\* 0.001 of its rank before the pass.
C10_ExitWithinTolerance ==
    [][(Iterating /\ pc = "pass" /\ pc' = "done") =>
          \A p \in Pages :
              RLeq[RAbs[RSub[updated_pagerank[p], pagerank[p]]],
                   Frac[Tolerance, RankUnit]]]_vars
====
